---------------------------- MODULE Spec2Model ----------------------------
(***************************************************************************)
(* WinSign: the page renderer (document load effect, render effect with    *)
(* its render token), the field placement / drag / resize transforms of    *)
(* SignatureEditor, and the burn-in compositor addVisualSignature.         *)
(*                                                                         *)
(* JavaScript numbers are modelled as exact rationals <<num, den>> with    *)
(* den > 0 in lowest terms; Math.floor, Math.max and Math.min are modelled *)
(* on them exactly.                                                        *)
(*                                                                         *)
(* React: one action is one event handler or one promise continuation      *)
(* together with the commit it causes (state setters of one continuation   *)
(* are batched into one commit, ref callbacks run in the commit, effect    *)
(* cleanups and effects run right after it).                               *)
(***************************************************************************)
EXTENDS Integers, Sequences, FiniteSets, TLC

(***************************************************************************)
(* Bounds of the model.                                                    *)
(***************************************************************************)
\* file changes + first load: how many load effects with a PDF may start
MaxLoads == 2
\* how many zoom clicks may start a render batch
MaxZooms == 1

(***************************************************************************)
(* Exact rational arithmetic.                                              *)
(***************************************************************************)
RECURSIVE GCD(_, _)
GCD(a, b) == IF b = 0 THEN a ELSE GCD(b, a % b)

Abs(n) == IF n < 0 THEN -n ELSE n

Norm(n, d) ==
  LET s == IF d < 0 THEN -1 ELSE 1
      g == GCD(Abs(n), Abs(d))
  IN  <<(s * n) \div g, (s * d) \div g>>

R(n) == <<n, 1>>
RAdd(p, q) ==
  LET g == GCD(p[2], q[2])
  IN  Norm(p[1] * (q[2] \div g) + q[1] * (p[2] \div g), (p[2] \div g) * q[2])
RNeg(p) == <<-p[1], p[2]>>
RSub(p, q) == RAdd(p, RNeg(q))
RMul(p, q) ==
  LET a == Norm(p[1], q[2])
      b == Norm(q[1], p[2])
  IN  Norm(a[1] * b[1], a[2] * b[2])
RDiv(p, q) == RMul(p, Norm(q[2], q[1]))
RLt(p, q) == RSub(p, q)[1] < 0
RLe(p, q) == RSub(p, q)[1] <= 0
RMax(p, q) == IF RLt(p, q) THEN q ELSE p
RMin(p, q) == IF RLt(q, p) THEN q ELSE p
RFloor(p) == p[1] \div p[2]
RAbs(p) == <<Abs(p[1]), p[2]>>

(***************************************************************************)
(* JavaScript numbers: a rational, or Infinity, -Infinity, NaN.  The       *)
(* operators /, * and - as the handlers apply them to measurements.        *)
(***************************************************************************)
Infinity == <<1, 0>>
NaN == <<0, 0>>
Finite(v) == v[2] # 0
Sgn(n) == IF n < 0 THEN -1 ELSE IF n > 0 THEN 1 ELSE 0

\* a / b: a finite value over 0 is an infinity, 0 / 0 is NaN
JDiv(a, b) ==
  IF a = NaN \/ b = NaN THEN NaN
  ELSE IF ~Finite(a) THEN (IF ~Finite(b) THEN NaN
                           ELSE <<a[1] * (IF b[1] < 0 THEN -1 ELSE 1), 0>>)
  ELSE IF ~Finite(b) THEN R(0)
  ELSE IF b[1] = 0 THEN <<Sgn(a[1]), 0>>
  ELSE RDiv(a, b)

\* a * b: an infinity times 0 is NaN
JMul(a, b) ==
  IF a = NaN \/ b = NaN THEN NaN
  ELSE IF Finite(a) /\ Finite(b) THEN RMul(a, b)
  ELSE <<Sgn(a[1]) * Sgn(b[1]), 0>>

\* a - b: an infinity less the same infinity is NaN
JSub(a, b) ==
  IF a = NaN \/ b = NaN THEN NaN
  ELSE IF Finite(a) /\ Finite(b) THEN RSub(a, b)
  ELSE IF ~Finite(a) /\ ~Finite(b) THEN (IF a = b THEN NaN ELSE a)
  ELSE IF ~Finite(a) THEN a
  ELSE <<-b[1], 0>>

(***************************************************************************)
(* Program constants (SignatureEditor / PdfPreview).                       *)
(***************************************************************************)
SCALE_STEP == <<1, 4>>
MIN_SCALE == <<1, 4>>
DEFAULT_SCALE == <<3, 4>>
MAX_SCALE == <<5, 2>>

(***************************************************************************)
(* State.                                                                  *)
(***************************************************************************)
VARIABLES
  \* ---- page renderer (load effect + render effect) ----
  mounted,         \* the component is mounted
  file,            \* the file prop: a path, or NoFile
  loads,           \* the loadPdf() calls, by load id: [file, cancelled, pc]
  docState,        \* decoded document of load l: "none" | "live" |
                   \* "destroyed" (released by a cleanup) | "discarded"
                   \* (destroyed by the load that decoded it)
  pdfInstanceRef,  \* pdfInstanceRef.current: a load id, 0 = null
  pdf,             \* React state pdf: a load id, 0 = null
  pageCount,       \* React state pageCount
  scale,           \* React state scale
  loading,         \* React state loading
  error,           \* React state error: "none" | "open" | "render"
  renderTokenRef,  \* renderTokenRef.current
  effectActive,    \* the render effect's last run returned a cleanup
  batches,         \* the renderAllPages() calls in flight
  lastStarted,     \* history: token of the batch started last
  canvasMounted,   \* the page canvases are in the DOM (canvasRefs filled)
  canvasGen,       \* identity of the mounted canvas elements
  surface,         \* per page: what the mounted canvas shows
  zooms,           \* zoom clicks so far
  staleEffects,    \* history: visible effects of a superseded batch
  silenced,        \* history: a failure of a batch that no longer held the
                   \* current token was caught
  tornRender,      \* history: a page of a torn-down document was rendered
  \* ---- field placement (SignatureEditor) and burn-in ----
  devicePixelRatio,          \* window.devicePixelRatio
  signatureFields,           \* React state signatureFields
  selectedFieldId,           \* React state selectedFieldId, 0 = null
  isPlacingSignature,        \* React state isPlacingSignature
  isDragging,                \* React state isDragging
  isResizing,                \* React state isResizing
  showSignatureModal,        \* React state showSignatureModal
  pendingSignaturePosition,  \* React state pendingSignaturePosition
  gesture,         \* the closure of the mousemove/mouseup listener pair
  listeners,       \* the listener pairs registered on document, by kind
  raf,             \* the update a requestAnimationFrame callback will apply
  overlay,         \* per field id: the style of its <div> as last rendered
  gestures,        \* mousedowns on a field or a handle so far
  last,            \* history: the last pointer-move update that was applied
  snapshot,        \* the field list handed to the dashboard on Sign Document
  drawn,           \* what addVisualSignature drew, per field of the list
  fieldIds,        \* field ids generated so far (generateFieldId)
  \* ---- signing backend (documents:sign, documents:download) ----
  request,         \* the field list the renderer sends with documents:sign
  disk,            \* the file system: path -> content
  signLog,         \* history: the documents:sign calls and their results
  lastOps,         \* what the last addVisualSignature drew, or None
  dialog,          \* the save dialog of documents:download, or None
  download,        \* the last documents:download result, or None
  toast,           \* the message the renderer showed last, or None
  verified         \* the last documents:verify call and its result, or None

rvars == <<mounted, file, loads, docState, pdfInstanceRef, pdf, pageCount,
           scale, loading, error, renderTokenRef, effectActive, batches,
           lastStarted, canvasMounted, canvasGen, surface, zooms, staleEffects, tornRender,
                 silenced>>

evars == <<devicePixelRatio, signatureFields, selectedFieldId,
           isPlacingSignature, isDragging, isResizing, showSignatureModal,
           pendingSignaturePosition, gesture, listeners, raf, overlay,
           gestures, last, snapshot, drawn, fieldIds>>

svars == <<request, disk, signLog, lastOps, dialog, download, toast,
           verified>>

vars == <<rvars, evars, svars>>

None == [kind |-> "none"]

NoFile == "none"
PdfFiles == {"a.pdf", "b.pdf"}
\* a file that is not a PDF, or no file at all (the same branch of loadPdf)
OtherFiles == {NoFile}
AllFiles == PdfFiles \cup OtherFiles

\* isPdf: (file?.extension || '').toLowerCase() === 'pdf'
isPdf(f) == f \in PdfFiles

\* pdfDoc.numPages of the document decoded from f
numPages(f) == IF f = "a.pdf" THEN 2 ELSE 1

Pages == 1..2

\* a freshly mounted <canvas>: default size, nothing drawn
BlankSurface == [sized |-> <<0, 1>>, paintTok |-> 0]
BlankSurfaces == [i \in Pages |-> BlankSurface]


(***************************************************************************)
(* Page renderer: the render effect (renderAllPages).                      *)
(***************************************************************************)
\* a batch has left its loop (or its promise was rejected)
Done(b) == b.pc = "done"

\* the canvas the batch captured is still the one on screen
Visible(b) == canvasMounted /\ b.cgen = canvasGen

\* a later render batch has been started
Superseded(b) == b.token < lastStarted

\* the batches in flight, with b replaced by what it has become
Step(bs, b, nb) == (bs \ {b}) \cup (IF Done(nb) THEN {} ELSE {nb})

\* The head of the page loop, run without suspension up to the first await:
\* token checkpoint, canvas lookup (a missing canvas is skipped; the canvases
\* are mounted or unmounted together), then getPage is awaited.
LoopTop(b, tok, hasCanvas, gen) ==
  IF b.index > b.pages \/ tok # b.token \/ ~hasCanvas
  THEN [b EXCEPT !.pc = "done"]
  ELSE [b EXCEPT !.pc = "getPage", !.cgen = gen]

\* A batch whose token is no longer current reads none of its closure's
\* pdf, scale and pageCount again (every use follows a token checkpoint):
\* those values are dropped. One awaiting getPage only leaves its loop when
\* the promise settles, with no effect: it is dropped whole.
Retire(bs, tok) ==
  {IF b.token = tok THEN b
   ELSE [b EXCEPT !.doc = 0, !.scale = <<0, 1>>, !.pages = 0] :
     b \in {c \in bs : c.token = tok \/ c.pc # "getPage"}}

\* the editor shows the page canvases
ShouldMount(f, ld, er, n) == isPdf(f) /\ ~ld /\ er = "none" /\ n > 0

\* the render effect's cleanup
RenderCleanup(tok) == tok + 1

\* the token a new render batch takes
NextToken_Reused(tok) == tok

NextToken(tok) == tok + 1

\* One React commit: the new props/state are rendered, canvases are mounted
\* or unmounted, then the render effect is cleaned up and re-run when one of
\* its dependencies [pdf, pageCount, scale] changed.  bs: the batches as the
\* handler left them.
Commit(f, p, n, s, ld, er, bs) ==
  LET depsChanged == <<p, n, s>> # <<pdf, pageCount, scale>>
      mountNow == ShouldMount(f, ld, er, n)
      fresh == mountNow /\ ~canvasMounted
      gen == IF fresh THEN canvasGen + 1 ELSE canvasGen
      tok0 == IF depsChanged /\ effectActive
              THEN RenderCleanup(renderTokenRef) ELSE renderTokenRef
      starts == depsChanged /\ p # 0 /\ n # 0
      tok == IF starts THEN NextToken(tok0) ELSE tok0
      nb == [token |-> tok, doc |-> p, scale |-> s, pages |-> n,
             index |-> 1, pc |-> "loop", cgen |-> 0]
  IN  /\ file' = f
      /\ pdf' = p
      /\ pageCount' = n
      /\ scale' = s
      /\ loading' = ld
      /\ error' = er
      /\ canvasMounted' = mountNow
      /\ canvasGen' = gen
      /\ surface' = IF mountNow /\ ~fresh THEN surface ELSE BlankSurfaces
      /\ renderTokenRef' = tok
      /\ effectActive' = IF depsChanged THEN starts ELSE effectActive
      /\ lastStarted' = IF starts THEN tok ELSE lastStarted
      /\ batches' = IF starts
                    THEN Step(Retire(bs, tok), nb, LoopTop(nb, tok, mountNow, gen))
                    ELSE Retire(bs, tok)

NoCommit ==
  UNCHANGED <<file, pdf, pageCount, scale, loading, error, canvasMounted,
              canvasGen, surface, renderTokenRef, effectActive, lastStarted>>

\* what the surface of a page shows after the batch sized and cleared it
Sized(sf, b) ==
  [sf EXCEPT ![b.index] = [sized |-> b.scale, paintTok |-> 0]]

\* what the surface of a page shows once the rasterizer has drawn on it
Painted(sf, b) ==
  [sf EXCEPT ![b.index] = [sized |-> sf[b.index].sized, paintTok |-> b.token]]

\* pdf.getPage(index) resolves: second token checkpoint, then the canvas is
\* sized and cleared and page.render() is started and awaited
GetPageResolve(b) ==
      /\ b.pc = "getPage"
      /\ IF renderTokenRef # b.token
         THEN /\ batches' = batches \ {b}
              /\ UNCHANGED <<surface, staleEffects, tornRender,
                 silenced>>
         ELSE /\ batches' = Step(batches, b, [b EXCEPT !.pc = "render"])
              /\ surface' = IF Visible(b) THEN Sized(surface, b) ELSE surface
              /\ staleEffects' = IF Visible(b) /\ Superseded(b)
                                 THEN staleEffects \cup {"size"}
                                 ELSE staleEffects
              /\ tornRender' = (tornRender \/ docState[b.doc] = "destroyed")
      /\ UNCHANGED <<mounted, file, loads, docState, pdfInstanceRef, pdf,
                     pageCount, scale, loading, error, renderTokenRef,
                     effectActive, lastStarted, canvasMounted, canvasGen, zooms,
                     silenced>>

\* page.render(renderContext).promise resolves: the rasterizer has drawn the
\* page on the canvas it was given (the render task is never cancelled);
\* page.cleanup(), then the loop goes on with the next page
RenderResolve(b) ==
  LET nxt == [b EXCEPT !.index = b.index + 1]
  IN  /\ b.pc = "render"
      /\ surface' = IF Visible(b) THEN Painted(surface, b) ELSE surface
      /\ staleEffects' = IF Visible(b) /\ Superseded(b)
                         THEN staleEffects \cup {"draw"}
                         ELSE staleEffects
      /\ batches' = Step(batches, b,
                         LoopTop(nxt, renderTokenRef, canvasMounted, canvasGen))
      /\ UNCHANGED <<mounted, file, loads, docState, pdfInstanceRef, pdf,
                     pageCount, scale, loading, error, renderTokenRef,
                     effectActive, lastStarted, canvasMounted, canvasGen, zooms,
                     tornRender,
                 silenced>>

\* the catch handler of renderAllPages: the error is set for the current
\* token only
CatchSetsError_Never(b, tok) == FALSE

CatchSetsError_Always(b, tok) == TRUE

CatchSetsError(b, tok) == tok = b.token

\* pdf.getPage or page.render rejects
RenderReject(b) ==
  LET bs == batches \ {b}
  IN  /\ b.pc \in {"getPage", "render"}
      /\ IF mounted /\ CatchSetsError(b, renderTokenRef)
         THEN /\ Commit(file, pdf, pageCount, scale, loading, "render", bs)
              /\ staleEffects' = IF Superseded(b)
                                 THEN staleEffects \cup {"error"}
                                 ELSE staleEffects
         ELSE /\ batches' = bs
              /\ NoCommit
              /\ UNCHANGED staleEffects
      /\ silenced' = (silenced \/ b.token # renderTokenRef)
      /\ UNCHANGED <<mounted, loads, docState, pdfInstanceRef, zooms, tornRender>>

\* the zoom buttons: setScale(max(MIN_SCALE, v - SCALE_STEP)) and
\* setScale(min(MAX_SCALE, v + SCALE_STEP)); disabled without a pdf and at
\* the end of the range
ZoomOut ==
  /\ mounted /\ pdf # 0 /\ RLt(MIN_SCALE, scale) /\ zooms < MaxZooms
  /\ Commit(file, pdf, pageCount, RMax(MIN_SCALE, RSub(scale, SCALE_STEP)),
            loading, error, batches)
  /\ zooms' = zooms + 1
  /\ UNCHANGED <<mounted, loads, docState, pdfInstanceRef, staleEffects, tornRender,
                 silenced>>

ZoomIn ==
  /\ mounted /\ pdf # 0 /\ RLt(scale, MAX_SCALE) /\ zooms < MaxZooms
  /\ Commit(file, pdf, pageCount, RMin(MAX_SCALE, RAdd(scale, SCALE_STEP)),
            loading, error, batches)
  /\ zooms' = zooms + 1
  /\ UNCHANGED <<mounted, loads, docState, pdfInstanceRef, staleEffects, tornRender,
                 silenced>>

(***************************************************************************)
(* Page renderer: the load effect (loadPdf and its cleanup).               *)
(***************************************************************************)
\* pdfDoc.destroy()
Destroy(ds, d) == IF d = 0 THEN ds ELSE [ds EXCEPT ![d] = "destroyed"]

\* (mutant) the cancelled branch returns without destroying the document
CancelledDecode_Leak(ds, l) == [ds EXCEPT ![l] = "live"]

\* the cancelled branch after decoding: await pdfDoc.destroy(); return
CancelledDecode(ds, l) == [ds EXCEPT ![l] = "discarded"]

\* the load effect's cleanup, on the decoded documents:
\* if (pdfInstanceRef.current) pdfInstanceRef.current.destroy()
CleanupDestroy(ds, ref) == Destroy(ds, ref)

\* the load effect's cleanup, on the loads: cancelled = true
Cancel(ls) ==
  [l \in DOMAIN ls |-> IF ls[l].pc \in {"read", "decode"}
                       THEN [ls[l] EXCEPT !.cancelled = TRUE] ELSE ls[l]]

Loads == 1..MaxLoads
IdleLoad == [file |-> NoFile, cancelled |-> FALSE, pc |-> "idle"]
DoneLoad == [file |-> NoFile, cancelled |-> FALSE, pc |-> "done"]
\* the loadPdf() calls started so far
nLoads == Cardinality({l \in Loads : loads[l].pc # "idle"})

\* window.api.readDocument(file.path) resolves
ReadResolve(l) ==
  /\ loads[l].pc = "read"
  /\ loads' = [loads EXCEPT ![l] = IF loads[l].cancelled THEN DoneLoad
                                   ELSE [loads[l] EXCEPT !.pc = "decode"]]
  /\ NoCommit
  /\ UNCHANGED <<mounted, docState, pdfInstanceRef, batches, zooms,
                 staleEffects, tornRender,
                 silenced>>

\* getDocument(...).promise resolves.  The previous handle is destroyed
\* before the new one is installed (the cleanup has always cleared it by
\* then), the state is set and the first render batch starts.
DecodeResolve(l) ==
  /\ loads[l].pc = "decode"
  /\ loads' = [loads EXCEPT ![l] = DoneLoad]
  /\ IF loads[l].cancelled
     THEN /\ docState' = CancelledDecode(docState, l)
          /\ NoCommit
          /\ UNCHANGED <<pdfInstanceRef, batches>>
     ELSE /\ docState' = [Destroy(docState, pdfInstanceRef) EXCEPT ![l] = "live"]
          /\ pdfInstanceRef' = l
          /\ Commit(file, l, numPages(loads[l].file), DEFAULT_SCALE, FALSE,
                    error, batches)
  /\ UNCHANGED <<mounted, zooms, staleEffects, tornRender,
                 silenced>>

\* the catch of loadPdf: if (!cancelled) setError(err.message || ...)
CatchLoadError_Swallowed(cancelled, er) == er

CatchLoadError(cancelled, er) == IF cancelled THEN er ELSE "open"

\* readDocument or the decode rejects: catch and finally of loadPdf
LoadReject(l) ==
  /\ loads[l].pc \in {"read", "decode"}
  /\ loads' = [loads EXCEPT ![l] = DoneLoad]
  /\ IF loads[l].cancelled
     THEN NoCommit /\ UNCHANGED batches
     ELSE Commit(file, pdf, pageCount, scale, FALSE,
                 CatchLoadError(loads[l].cancelled, error), batches)
  /\ UNCHANGED <<mounted, docState, pdfInstanceRef, zooms, staleEffects, tornRender,
                 silenced>>

\* the file prop changes: cleanup of the previous load effect, then loadPdf()
\* of the new one up to its first await
FileChange(f) ==
  /\ mounted /\ f # file
  /\ isPdf(f) => nLoads < MaxLoads
  /\ docState' = CleanupDestroy(docState, pdfInstanceRef)
  /\ pdfInstanceRef' = 0
  /\ IF isPdf(f)
     THEN /\ loads' = [Cancel(loads) EXCEPT
                         ![nLoads + 1] = [file |-> f, cancelled |-> FALSE, pc |-> "read"]]
          /\ Commit(f, pdf, pageCount, scale, TRUE, "none", batches)
     ELSE /\ loads' = Cancel(loads)
          /\ Commit(f, 0, 0, DEFAULT_SCALE, FALSE, "none", batches)
  /\ UNCHANGED <<mounted, zooms, staleEffects, tornRender,
                 silenced>>

\* the component is unmounted: every effect's cleanup runs
Unmount ==
  /\ mounted
  /\ mounted' = FALSE
  /\ docState' = CleanupDestroy(docState, pdfInstanceRef)
  /\ pdfInstanceRef' = 0
  /\ loads' = Cancel(loads)
  /\ renderTokenRef' = IF effectActive THEN RenderCleanup(renderTokenRef)
                       ELSE renderTokenRef
  /\ effectActive' = FALSE
  /\ canvasMounted' = FALSE
  /\ surface' = BlankSurfaces
  /\ batches' = Retire(batches, renderTokenRef')
  /\ UNCHANGED <<file, pdf, pageCount, scale, loading, error,
                 lastStarted, canvasGen, zooms, staleEffects, tornRender,
                 silenced>>

InitRender ==
  /\ mounted = TRUE
  /\ file \in AllFiles
  /\ loads = [l \in Loads |->
               IF l = 1 /\ isPdf(file)
               THEN [file |-> file, cancelled |-> FALSE, pc |-> "read"]
               ELSE IdleLoad]
  /\ docState = [l \in 1..MaxLoads |-> "none"]
  /\ pdfInstanceRef = 0
  /\ pdf = 0
  /\ pageCount = 0
  /\ scale = DEFAULT_SCALE
  /\ loading = isPdf(file)
  /\ error = "none"
  /\ renderTokenRef = 0
  /\ effectActive = FALSE
  /\ batches = {}
  /\ lastStarted = 0
  /\ canvasMounted = FALSE
  /\ canvasGen = 0
  /\ surface = BlankSurfaces
  /\ zooms = 0
  /\ staleEffects = {}
  /\ tornRender = FALSE
  /\ silenced = FALSE

(***************************************************************************)
(* Page surfaces as the editor measures them.                              *)
(***************************************************************************)
\* the size of the document's page in PDF points (A4), as pdf.js and
\* pdf-lib report it: page.getViewport({scale: 1}), page.getSize()
PageSize == [width |-> 595, height |-> 842]

\* a <canvas> element that renderAllPages has not sized
DefaultCanvas == [width |-> 300, height |-> 150]

Unsized == <<0, 1>>

\* canvas.getBoundingClientRect(): style.width/height as renderAllPages set
\* them, displayWidth = viewport.width = page width * scale
RectOf(sz) ==
  IF sz = Unsized
  THEN [width |-> R(DefaultCanvas.width), height |-> R(DefaultCanvas.height)]
  ELSE [width |-> RMul(R(PageSize.width), sz),
        height |-> RMul(R(PageSize.height), sz)]

\* canvas.width/height: Math.floor(displayWidth * outputScale)
BackingOf(sz, dpr) ==
  IF sz = Unsized
  THEN DefaultCanvas
  ELSE [width |-> RFloor(RMul(RectOf(sz).width, dpr)),
        height |-> RFloor(RMul(RectOf(sz).height, dpr))]

\* scaleX = rect.width / (canvas.width / (window.devicePixelRatio || 1))
ScaleOf(rectLen, canvasLen, dpr) == JDiv(rectLen, JDiv(R(canvasLen), dpr))

\* (mutant) the click is taken in backing-store pixels: no division by the
\* device pixel ratio
ToCanvasUnits_NoRatio(v, rectLen, canvasLen, dpr) ==
  RMul(RDiv(v, rectLen), R(canvasLen))

\* pdfX = ((x / rect.width) * canvas.width) / (window.devicePixelRatio || 1)
ToCanvasUnits(v, rectLen, canvasLen, dpr) ==
  JDiv(JMul(JDiv(v, rectLen), R(canvasLen)), dpr)

SIGNATURE_FIELD_WIDTH == 150
SIGNATURE_FIELD_HEIGHT == 60

\* handleCanvasClick, placement branch: the pending position for a click at
\* (x, y) = (clientX - rect.left, clientY - rect.top)
PlaceOn(pageNumber, x, y, rect, canvas, sz, dpr, s) ==
  LET pdfX == ToCanvasUnits(x, rect.width, canvas.width, dpr)
      pdfY == ToCanvasUnits(y, rect.height, canvas.height, dpr)
  IN  [pageNumber |-> pageNumber,
       x |-> JSub(pdfX, RDiv(R(SIGNATURE_FIELD_WIDTH), R(2))),
       y |-> JSub(pdfY, RDiv(R(SIGNATURE_FIELD_HEIGHT), R(2))),
       width |-> R(SIGNATURE_FIELD_WIDTH),
       height |-> R(SIGNATURE_FIELD_HEIGHT),
       clientX |-> x,
       clientY |-> y,
       atScale |-> s,     \* history: the zoom scale at the click
       atSized |-> sz]        \* history: the surface's sizing at the click

\* the same for a surface that is laid out: getBoundingClientRect() gives
\* the size renderAllPages styled the canvas with
PlaceAt(pageNumber, x, y, sz, dpr, s) ==
  PlaceOn(pageNumber, x, y, RectOf(sz), BackingOf(sz, dpr), sz, dpr, s)

\* renderSignatureField: the style of a field's <div>
StyleOn(field, rect, canvas, sz, dpr) ==
  LET scaleX == ScaleOf(rect.width, canvas.width, dpr)
      scaleY == ScaleOf(rect.height, canvas.height, dpr)
  IN  [id |-> field.id,
       left |-> JMul(field.x, scaleX),
       top |-> JMul(field.y, scaleY),
       width |-> JMul(field.width, scaleX),
       height |-> JMul(field.height, scaleY),
       onSized |-> sz]        \* history: the sizing it was computed from

\* the same for a surface that is laid out
FieldStyle(field, sz, dpr) ==
  StyleOn(field, RectOf(sz), BackingOf(sz, dpr), sz, dpr)

\* the field overlays of one React render: renderSignatureField returns
\* null without a canvas ref, and the page block is rendered only while the
\* canvases are shown
Overlay(fields, hadCanvas, shown, sf, dpr) ==
  IF hadCanvas /\ shown
  THEN [i \in DOMAIN fields |->
          FieldStyle(fields[i], sf[fields[i].pageNumber].sized, dpr)]
  ELSE <<>>

\* handle.includes(side)
Includes(handle, side) ==
  \/ side = "right" /\ handle \in {"top-right", "bottom-right"}
  \/ side = "left" /\ handle \in {"top-left", "bottom-left"}
  \/ side = "top" /\ handle \in {"top-right", "top-left"}
  \/ side = "bottom" /\ handle \in {"bottom-right", "bottom-left"}

\* (mutant) no floor on the width
FloorWidth_None(v) == v

\* Math.max(50, startWidth +- deltaX)
FloorWidth(v) == RMax(R(50), v)

\* Math.max(30, startHeight +- deltaY)
FloorHeight(v) == RMax(R(30), v)

\* the resize listener's requestAnimationFrame callback: the raw and the
\* stored size for a pointer that moved by (dx, dy) since mousedown
ResizeTo(g, dx, dy) ==
  LET deltaX == RDiv(dx, g.scaleX)
      deltaY == RDiv(dy, g.scaleY)
      rawW == IF Includes(g.handle, "right") THEN RAdd(g.startWidth, deltaX)
              ELSE IF Includes(g.handle, "left") THEN RSub(g.startWidth, deltaX)
              ELSE g.startWidth
      rawH == IF Includes(g.handle, "bottom") THEN RAdd(g.startHeight, deltaY)
              ELSE IF Includes(g.handle, "top") THEN RSub(g.startHeight, deltaY)
              ELSE g.startHeight
  IN  [rawA |-> rawW, rawB |-> rawH,
       a |-> FloorWidth(rawW), b |-> FloorHeight(rawH)]

\* (mutant) no clamp on the origin
ClampOrigin_None(v) == v

\* Math.max(0, newX), Math.max(0, newY)
ClampOrigin(v) == RMax(R(0), v)

\* the drag listener's requestAnimationFrame callback: the raw and the
\* stored origin for a pointer at (clientX, clientY)
DragTo(g, clientX, clientY) ==
  LET newX == RDiv(RSub(clientX, g.offsetX), g.scaleX)
      newY == RDiv(RSub(clientY, g.offsetY), g.scaleY)
  IN  [rawA |-> newX, rawB |-> newY,
       a |-> ClampOrigin(newX), b |-> ClampOrigin(newY)]

(***************************************************************************)
(* The signature editor: placement, drag, resize.                          *)
(***************************************************************************)
\* how many signature fields may be created
MaxFields == 1
\* how many times the pointer may go down on a field or a resize handle
MaxGestures == 1

\* where the user clicks on a page surface, and how far a pointer moves
\* after mousedown (screen pixels)
ClickPoints == {<<30, 10>>, <<100, 100>>}
Moves == {<<40, 20>>, <<-200, -100>>}
Handles == {"bottom-right", "top-left"}

\* what SignatureInputModal hands to onSignatureCreated
Signatures ==
  {[type |-> "draw", data |-> "data:image/png", text |-> ""],
   [type |-> "type", data |-> "blob:svg", text |-> "typed"],
   [type |-> "image", data |-> "data:image/png", text |-> ""]}

\* pointer input reaches the editor: it is mounted and the modal, a
\* full-screen overlay, is closed
Reachable == mounted /\ ~showSignatureModal

\* the toolbar buttons: disabled={!pdf || loading}; they are clicked with
\* the mouse, so not while a button is held down on a field
ToolbarEnabled == Reachable /\ pdf # 0 /\ ~loading /\ gesture = None

\* an editor state change and the React render that follows it
Rendered(fields) ==
  overlay' = Overlay(fields, canvasMounted, canvasMounted, surface,
                     devicePixelRatio)

\* handleSignDocument without fields
EnterPlacement ==
  /\ ToolbarEnabled
  /\ Len(signatureFields) = 0
  /\ isPlacingSignature' = TRUE
  /\ selectedFieldId' = 0
  /\ Rendered(signatureFields)
  /\ UNCHANGED <<listeners, devicePixelRatio, signatureFields, isDragging, isResizing,
                 showSignatureModal, pendingSignaturePosition, gesture, raf,
                 gestures, last, snapshot, drawn, fieldIds>>
  /\ UNCHANGED rvars

\* if (isPlacingSignature): the branch handleCanvasClick takes
PlacementActive_Always(placing) == TRUE

PlacementActive(placing) == placing

\* handleCanvasClick(event, pageNumber), with rect the box that
\* canvas.getBoundingClientRect() returns
CanvasClickOn(pageNumber, pt, rect) ==
  LET sz == surface[pageNumber].sized
  IN  /\ Reachable /\ canvasMounted /\ gesture = None
      /\ pageNumber <= pageCount
      /\ IF PlacementActive(isPlacingSignature)
         THEN /\ pendingSignaturePosition' =
                   PlaceOn(pageNumber, R(pt[1]), R(pt[2]), rect,
                           BackingOf(sz, devicePixelRatio), sz,
                           devicePixelRatio, scale)
              /\ showSignatureModal' = TRUE
              /\ isPlacingSignature' = FALSE
              /\ UNCHANGED selectedFieldId
         ELSE /\ selectedFieldId' = 0
              /\ UNCHANGED <<pendingSignaturePosition, showSignatureModal,
                             isPlacingSignature>>
      /\ Rendered(signatureFields)
      /\ UNCHANGED <<listeners, devicePixelRatio, signatureFields, isDragging, isResizing,
                     gesture, raf, gestures, last, snapshot, drawn, fieldIds>>
      /\ UNCHANGED rvars

\* a click with the pointer on a surface that is laid out: inside the box
\* the canvas was styled with
CanvasClick(pageNumber, pt) ==
  LET rect == RectOf(surface[pageNumber].sized)
  IN  /\ RLt(R(pt[1]), rect.width) /\ RLt(R(pt[2]), rect.height)
      /\ CanvasClickOn(pageNumber, pt, rect)

\* the Add Signature button of the editing mode
AddSignature ==
  /\ ToolbarEnabled
  /\ ~isPlacingSignature
  /\ isPlacingSignature' = TRUE
  /\ selectedFieldId' = 0
  /\ Rendered(signatureFields)
  /\ UNCHANGED <<listeners, devicePixelRatio, signatureFields, isDragging, isResizing,
                 showSignatureModal, pendingSignaturePosition, gesture, raf,
                 gestures, last, snapshot, drawn, fieldIds>>
  /\ UNCHANGED rvars

\* handleSignatureCreated(signature)
SignatureCreated(signature) ==
  LET p == pendingSignaturePosition
      newField == [id |-> fieldIds + 1,
                   pageNumber |-> p.pageNumber,
                   x |-> p.x, y |-> p.y,
                   width |-> p.width, height |-> p.height,
                   clientX |-> p.clientX, clientY |-> p.clientY,
                   signatureType |-> signature.type,
                   signatureData |-> signature.data,
                   signatureText |-> signature.text,
                   atScale |-> p.atScale, atSized |-> p.atSized,
                   edited |-> FALSE]   \* history: moved or resized since
  IN  /\ mounted /\ showSignatureModal
      /\ pendingSignaturePosition # None
      /\ fieldIds < MaxFields
      /\ fieldIds' = fieldIds + 1
      /\ signatureFields' = Append(signatureFields, newField)
      /\ selectedFieldId' = newField.id
      /\ pendingSignaturePosition' = None
      /\ showSignatureModal' = FALSE
      /\ Rendered(signatureFields')
      /\ UNCHANGED <<listeners, devicePixelRatio, isPlacingSignature, isDragging,
                     isResizing, gesture, raf, gestures, last, snapshot, drawn>>
      /\ UNCHANGED rvars

\* handleCloseSignatureModal
CloseSignatureModal ==
  /\ mounted /\ showSignatureModal
  /\ showSignatureModal' = FALSE
  /\ pendingSignaturePosition' = None
  /\ Rendered(signatureFields)
  /\ UNCHANGED <<listeners, devicePixelRatio, signatureFields, selectedFieldId,
                 isPlacingSignature, isDragging, isResizing, gesture, raf,
                 gestures, last, snapshot, drawn, fieldIds>>
  /\ UNCHANGED rvars

\* (mutant) the selection survives the deletion
SelectionAfterDelete_Kept(selected, fieldId) == selected

\* if (selectedFieldId === fieldId) setSelectedFieldId(null)
SelectionAfterDelete(selected, fieldId) ==
  IF selected = fieldId THEN 0 ELSE selected

\* handleFieldDelete(fieldId), from the delete button of the selected field
FieldDelete(i) ==
  /\ Reachable /\ gesture = None
  /\ i \in DOMAIN overlay
  /\ \E j \in DOMAIN signatureFields :
       /\ signatureFields[j].id = overlay[i].id
       /\ selectedFieldId = overlay[i].id
  /\ signatureFields' =
       SelectSeq(signatureFields, LAMBDA f : f.id # overlay[i].id)
  /\ selectedFieldId' = SelectionAfterDelete(selectedFieldId, overlay[i].id)
  /\ Rendered(signatureFields')
  /\ UNCHANGED <<listeners, devicePixelRatio, isPlacingSignature, isDragging, isResizing,
                 showSignatureModal, pendingSignaturePosition, gesture, raf,
                 gestures, last, snapshot, drawn, fieldIds>>
  /\ UNCHANGED rvars

\* handleFieldMouseDown(e, field): the pointer goes down on the field's
\* <div>, 10 px inside its top-left corner
FieldMouseDown(i) ==
  LET st == overlay[i]
      field == CHOOSE f \in {signatureFields[j] : j \in DOMAIN signatureFields} :
                 f.id = st.id
      sz == surface[field.pageNumber].sized
      rect == RectOf(sz)
      canvas == BackingOf(sz, devicePixelRatio)
      scaleX == ScaleOf(rect.width, canvas.width, devicePixelRatio)
      scaleY == ScaleOf(rect.height, canvas.height, devicePixelRatio)
      clientX == RAdd(st.left, R(10))
      clientY == RAdd(st.top, R(10))
  IN  /\ Reachable /\ gesture = None /\ gestures < MaxGestures
      /\ i \in DOMAIN overlay
      /\ \E j \in DOMAIN signatureFields : signatureFields[j].id = st.id
      /\ gestures' = gestures + 1
      /\ selectedFieldId' = field.id
      /\ isDragging' = TRUE
      /\ listeners' = Append(listeners, "drag")
      /\ gesture' = [kind |-> "drag", id |-> field.id,
                     startX |-> clientX, startY |-> clientY,
                     scaleX |-> scaleX, scaleY |-> scaleY,
                     offsetX |-> RSub(clientX, RMul(field.x, scaleX)),
                     offsetY |-> RSub(clientY, RMul(field.y, scaleY))]
      /\ Rendered(signatureFields)
      /\ UNCHANGED <<devicePixelRatio, signatureFields, isPlacingSignature,
                     isResizing, showSignatureModal, pendingSignaturePosition,
                     raf, last, snapshot, drawn, fieldIds>>
      /\ UNCHANGED rvars

\* handleResizeMouseDown(e, field, handle)
ResizeMouseDown(i, handle) ==
  LET st == overlay[i]
      field == CHOOSE f \in {signatureFields[j] : j \in DOMAIN signatureFields} :
                 f.id = st.id
      sz == surface[field.pageNumber].sized
      rect == RectOf(sz)
      canvas == BackingOf(sz, devicePixelRatio)
  IN  /\ Reachable /\ gesture = None /\ gestures < MaxGestures
      /\ i \in DOMAIN overlay
      /\ \E j \in DOMAIN signatureFields : signatureFields[j].id = st.id
      /\ gestures' = gestures + 1
      /\ selectedFieldId' = field.id
      /\ isResizing' = TRUE
      /\ listeners' = Append(listeners, "resize")
      /\ gesture' = [kind |-> "resize", id |-> field.id, handle |-> handle,
                     scaleX |-> ScaleOf(rect.width, canvas.width,
                                        devicePixelRatio),
                     scaleY |-> ScaleOf(rect.height, canvas.height,
                                        devicePixelRatio),
                     startWidth |-> field.width,
                     startHeight |-> field.height,
                     atScale |-> scale,   \* history: the zoom scale
                     atSized |-> sz]      \* history: the surface's sizing
      /\ Rendered(signatureFields)
      /\ UNCHANGED <<devicePixelRatio, signatureFields, isPlacingSignature,
                     isDragging, showSignatureModal, pendingSignaturePosition,
                     raf, last, snapshot, drawn, fieldIds>>
      /\ UNCHANGED rvars

\* the document's mousemove listener of the gesture: it hands the update to
\* requestAnimationFrame; the pointer is (dx, dy) away from where it went down
MouseMove(d) ==
  /\ mounted /\ gesture # None /\ raf = None
  /\ raf' = IF gesture.kind = "drag"
            THEN [kind |-> "drag", id |-> gesture.id,
                  clientX |-> RAdd(gesture.startX, R(d[1])),
                  clientY |-> RAdd(gesture.startY, R(d[2])),
                  to |-> DragTo(gesture, RAdd(gesture.startX, R(d[1])),
                                RAdd(gesture.startY, R(d[2])))]
            ELSE [kind |-> "resize", id |-> gesture.id,
                  dx |-> d[1], dy |-> d[2],
                  handle |-> gesture.handle,
                  startWidth |-> gesture.startWidth,
                  startHeight |-> gesture.startHeight,
                  scaleX |-> gesture.scaleX, scaleY |-> gesture.scaleY,
                  atScale |-> gesture.atScale,
                  atSized |-> gesture.atSized,
                  to |-> ResizeTo(gesture, R(d[1]), R(d[2]))]
  /\ UNCHANGED <<listeners, devicePixelRatio, signatureFields, selectedFieldId,
                 isPlacingSignature, isDragging, isResizing, showSignatureModal,
                 pendingSignaturePosition, gesture, overlay, gestures, last,
                 snapshot, drawn, fieldIds>>
  /\ UNCHANGED rvars

\* updateFieldPosition / updateFieldSize
UpdateField(fields, u) ==
  [j \in DOMAIN fields |->
     IF fields[j].id # u.id THEN fields[j]
     ELSE IF u.kind = "drag"
          THEN [fields[j] EXCEPT !.x = u.to.a, !.y = u.to.b, !.edited = TRUE]
          ELSE [fields[j] EXCEPT !.width = u.to.a, !.height = u.to.b,
                                 !.edited = TRUE]]

\* the requestAnimationFrame callback runs
AnimationFrame ==
  /\ mounted /\ raf # None
  /\ signatureFields' = UpdateField(signatureFields, raf)
  /\ last' = IF \E j \in DOMAIN signatureFields : signatureFields[j].id = raf.id
             THEN raf ELSE last
  /\ raf' = None
  /\ Rendered(signatureFields')
  /\ UNCHANGED <<listeners, devicePixelRatio, selectedFieldId, isPlacingSignature,
                 isDragging, isResizing, showSignatureModal,
                 pendingSignaturePosition, gesture, gestures, snapshot, drawn,
                 fieldIds>>
  /\ UNCHANGED rvars

\* the listener pairs that can be registered at once
MaxListeners == 2

\* handleFieldMouseDown while a pair is registered (a second mouse button
\* goes down, or the document never saw the pointer-up): the handler has
\* no guard and registers one more pair.  The closure of the new pair is
\* not kept: the pointer is not moved while two pairs are registered.
FieldMouseDownAgain(i) ==
  /\ Reachable /\ listeners # <<>> /\ Len(listeners) < MaxListeners
  /\ i \in DOMAIN overlay
  /\ \E j \in DOMAIN signatureFields : signatureFields[j].id = overlay[i].id
  /\ selectedFieldId' = overlay[i].id
  /\ isDragging' = TRUE
  /\ listeners' = Append(listeners, "drag")
  /\ Rendered(signatureFields)
  /\ UNCHANGED <<devicePixelRatio, signatureFields, isPlacingSignature,
                 isResizing, showSignatureModal, pendingSignaturePosition,
                 gesture, raf, gestures, last, snapshot, drawn, fieldIds>>
  /\ UNCHANGED rvars

\* handleResizeMouseDown while a pair is registered
ResizeMouseDownAgain(i) ==
  /\ Reachable /\ listeners # <<>> /\ Len(listeners) < MaxListeners
  /\ i \in DOMAIN overlay
  /\ \E j \in DOMAIN signatureFields : signatureFields[j].id = overlay[i].id
  /\ selectedFieldId' = overlay[i].id
  /\ isResizing' = TRUE
  /\ listeners' = Append(listeners, "resize")
  /\ Rendered(signatureFields)
  /\ UNCHANGED <<devicePixelRatio, signatureFields, isPlacingSignature,
                 isDragging, showSignatureModal, pendingSignaturePosition,
                 gesture, raf, gestures, last, snapshot, drawn, fieldIds>>
  /\ UNCHANGED rvars

\* the pairs of one kind among the registered ones
Registered(kind) == \E k \in DOMAIN listeners : listeners[k] = kind

\* mouseup on document: the handleMouseUp of every registered pair runs,
\* resets its flag and removes its pair; after the editor is gone the
\* state setters reach nothing
MouseUp ==
  /\ listeners # <<>>
  /\ listeners' = <<>>
  /\ gesture' = None
  /\ IF mounted
     THEN /\ isDragging' = (IF Registered("drag") THEN FALSE ELSE isDragging)
          /\ isResizing' = (IF Registered("resize") THEN FALSE ELSE isResizing)
          /\ Rendered(signatureFields)
     ELSE UNCHANGED <<isDragging, isResizing, overlay>>
  /\ UNCHANGED <<devicePixelRatio, signatureFields, selectedFieldId,
                 isPlacingSignature, showSignatureModal,
                 pendingSignaturePosition, raf, gestures, last, snapshot,
                 drawn, fieldIds>>
  /\ UNCHANGED rvars

\* a render of the editor with no state change of its own (the parent
\* renders, a hover timer fires)
Rerender ==
  /\ mounted
  /\ Rendered(signatureFields)
  /\ overlay' # overlay
  /\ UNCHANGED <<listeners, devicePixelRatio, signatureFields, selectedFieldId,
                 isPlacingSignature, isDragging, isResizing, showSignatureModal,
                 pendingSignaturePosition, gesture, raf, gestures, last,
                 snapshot, drawn, fieldIds>>
  /\ UNCHANGED rvars

\* the box of an element without a layout box (not rendered, or inside a
\* subtree that is not displayed): getBoundingClientRect() returns zeros
EmptyRect == [width |-> R(0), height |-> R(0)]

\* where a click event dispatched on such a surface may report its pointer:
\* (clientX - rect.left, clientY - rect.top)
DispatchPoints == ClickPoints \cup {<<0, 0>>}

\* a React render of the editor during which the page surfaces measure rect:
\* renderSignatureField for every field
RerenderOn(rect) ==
  /\ mounted /\ canvasMounted
  /\ overlay' = [i \in DOMAIN signatureFields |->
                   StyleOn(signatureFields[i], rect,
                           BackingOf(surface[signatureFields[i].pageNumber].sized,
                                     devicePixelRatio),
                           surface[signatureFields[i].pageNumber].sized,
                           devicePixelRatio)]
  /\ overlay' # overlay
  /\ UNCHANGED <<listeners, devicePixelRatio, signatureFields, selectedFieldId,
                 isPlacingSignature, isDragging, isResizing, showSignatureModal,
                 pendingSignaturePosition, gesture, raf, gestures, last,
                 snapshot, drawn, fieldIds>>
  /\ UNCHANGED rvars

(***************************************************************************)
(* Burn-in: addVisualSignature of the signing backend.                     *)
(***************************************************************************)
\* (mutant) the canvas's y is used as the PDF's y
FlipY_None(pageHeight, pdfY, pdfHeight) == pdfY

\* const y = pageHeight - pdfY - pdfHeight
FlipY(pageHeight, pdfY, pdfHeight) == RSub(RSub(pageHeight, pdfY), pdfHeight)

\* the signature kinds addVisualSignature embeds as an image
ImageKinds == {"image", "draw"}

\* const page = pages[field.pageNumber - 1]; if (!page) continue
OnMissingPage_Throws(field) == [op |-> "throw", id |-> field.id]

OnMissingPage(field) == [op |-> "skip", id |-> field.id]

\* what addVisualSignature draws for one field; embeds tells whether
\* embedPng / embedJpg accepts the field's image data.  A missing value
\* (undefined, null, '') is the empty string.
DrawField(field, pages, embeds) ==
  LET burnScale == <<3, 4>>        \* const scale = 0.75
      burnRatio == R(1)            \* const devicePixelRatio = 1
      pdfX == RDiv(RDiv(field.x, burnScale), burnRatio)
      pdfY == RDiv(RDiv(field.y, burnScale), burnRatio)
      pdfWidth == RDiv(RDiv(field.width, burnScale), burnRatio)
      pdfHeight == RDiv(RDiv(field.height, burnScale), burnRatio)
      x == pdfX
      y == FlipY(R(PageSize.height), pdfY, pdfHeight)
      fontSize == RMin(RDiv(pdfHeight, R(2)), R(20))
      image == [op |-> "image", id |-> field.id,
                x |-> x, y |-> y, width |-> pdfWidth, height |-> pdfHeight]
      text == [op |-> "text", id |-> field.id, text |-> field.signatureText,
               x |-> RAdd(x, R(5)),
               y |-> RSub(RAdd(y, RDiv(pdfHeight, R(2))), RDiv(fontSize, R(2))),
               size |-> fontSize]
      fallback(str) ==
        [op |-> "text", id |-> field.id, text |-> str,
         x |-> RAdd(x, R(5)), y |-> RAdd(y, RDiv(pdfHeight, R(2))),
         size |-> RMin(RDiv(pdfHeight, R(3)), R(16))]
      nothing == [op |-> "none", id |-> field.id]
  IN  IF field.pageNumber \notin 1..pages
      THEN OnMissingPage(field)
      ELSE IF field.signatureData # "" /\ field.signatureType # ""
      THEN CASE field.signatureType = "image" ->
                  IF embeds THEN image
                  ELSE fallback(IF field.signatureText # ""
                                THEN field.signatureText ELSE "Signature")
             [] field.signatureType = "text" /\ field.signatureText # "" ->
                  text
             [] field.signatureType = "type" ->
                  IF field.signatureText # "" THEN text ELSE nothing
             [] field.signatureType = "draw" ->
                  IF embeds THEN image ELSE fallback("Signature")
             [] OTHER -> nothing
      ELSE fallback("Signature")

\* addVisualSignature(pdfBuffer, signatureFields)
AddVisualSignature(fields, pages, embeds) ==
  [i \in DOMAIN fields |-> DrawField(fields[i], pages, embeds[i])]

\* the editor's state is gone with the component; a callback that
\* requestAnimationFrame still holds sets state on nothing
Unmounted ==
  /\ signatureFields' = <<>>
  /\ selectedFieldId' = 0
  /\ isPlacingSignature' = FALSE
  /\ isDragging' = FALSE
  /\ isResizing' = FALSE
  /\ showSignatureModal' = FALSE
  /\ pendingSignaturePosition' = None
  /\ gesture' = None
  /\ raf' = None
  /\ overlay' = <<>>
  /\ gestures' = 0
  /\ last' = None
  /\ fieldIds' = 0

\* handleSignDocument with fields: handleFinishSigning hands the preview to
\* the dashboard, whose handleSaveSignedDocument stores the fields with the
\* document and closes the editor
FinishSigning ==
  /\ ToolbarEnabled
  /\ Len(signatureFields) > 0
  /\ snapshot = None
  /\ snapshot' = [kind |-> "saved", fields |-> signatureFields]
  /\ Unmount
  /\ Unmounted
  /\ UNCHANGED <<listeners, devicePixelRatio, drawn>>

\* onClose: the dashboard closes the overlay and the editor is unmounted.
\* No effect cleanup of the editor touches the document's listeners.
CloseEditor ==
  /\ mounted /\ ~showSignatureModal
  /\ Unmount
  /\ Unmounted
  /\ UNCHANGED <<listeners, devicePixelRatio, snapshot, drawn>>

\* the dashboard's download of the saved document: documents:sign ->
\* signDocument -> addVisualSignature with the stored fields
SignResolve ==
  /\ snapshot # None /\ drawn = None
  /\ \E embeds \in [DOMAIN snapshot.fields -> BOOLEAN] :
       drawn' = [kind |-> "ops",
                 ops |-> AddVisualSignature(snapshot.fields, numPages(file),
                                            embeds)]
  /\ UNCHANGED <<listeners, devicePixelRatio, signatureFields, selectedFieldId,
                 isPlacingSignature, isDragging, isResizing, showSignatureModal,
                 pendingSignaturePosition, gesture, raf, overlay, gestures,
                 last, snapshot, fieldIds>>
  /\ UNCHANGED rvars

\* how many times the Download button may be clicked
MaxDownloads == 1

\* loading is true and no loadPdf() is running: handleDownloadSignedDocument
\* has set it and awaits documents:sign or documents:download
Downloading ==
  /\ mounted /\ loading /\ pdf # 0
  /\ \A l \in Loads : loads[l].pc \notin {"read", "decode"}

\* the Download button (shown with at least one field): the handler up to
\* its first await, setLoading(true); the render that follows shows the
\* 'Signing document...' line in place of the page canvases
DownloadClick ==
  /\ ToolbarEnabled
  /\ Len(signatureFields) > 0
  /\ canvasGen <= MaxDownloads
  /\ Commit(file, pdf, pageCount, scale, TRUE, error, batches)
  /\ overlay' = Overlay(signatureFields, canvasMounted, canvasMounted',
                        surface', devicePixelRatio)
  /\ UNCHANGED <<mounted, loads, docState, pdfInstanceRef, zooms, staleEffects,
                 tornRender, silenced>>
  /\ UNCHANGED <<listeners, devicePixelRatio, signatureFields, selectedFieldId,
                 isPlacingSignature, isDragging, isResizing, showSignatureModal,
                 pendingSignaturePosition, gesture, raf, gestures, last,
                 snapshot, drawn, fieldIds>>

\* the handler's finally block, however the two calls ended:
\* setLoading(false); the render that follows creates the page canvases anew
DownloadSettled ==
  /\ Downloading
  /\ Commit(file, pdf, pageCount, scale, FALSE, error, batches)
  /\ overlay' = Overlay(signatureFields, canvasMounted, canvasMounted',
                        surface', devicePixelRatio)
  /\ UNCHANGED <<mounted, loads, docState, pdfInstanceRef, zooms, staleEffects,
                 tornRender, silenced>>
  /\ UNCHANGED <<listeners, devicePixelRatio, signatureFields, selectedFieldId,
                 isPlacingSignature, isDragging, isResizing, showSignatureModal,
                 pendingSignaturePosition, gesture, raf, gestures, last,
                 snapshot, drawn, fieldIds>>

\* the editor's render after a zoom button
ZoomRendered ==
  /\ overlay' = Overlay(signatureFields, canvasMounted, canvasMounted',
                        surface, devicePixelRatio)
  /\ UNCHANGED <<listeners, devicePixelRatio, signatureFields, selectedFieldId,
                 isPlacingSignature, isDragging, isResizing, showSignatureModal,
                 pendingSignaturePosition, gesture, raf, gestures, last,
                 snapshot, drawn, fieldIds>>

\* the user zooms once the pages of the previous scale are drawn
ZoomReady == Reachable /\ gesture = None /\ batches = {}

EditorZoomIn == ZoomReady /\ ZoomIn /\ ZoomRendered

EditorZoomOut == ZoomReady /\ ZoomOut /\ ZoomRendered

(***************************************************************************)
(* The signing backend: documents:sign and documents:download of the main  *)
(* process, signDocument, and the renderer's download handler.  A path is  *)
(* the sequence of the pieces of its string: separators, names, and        *)
(* extensions with their dot.                                              *)
(***************************************************************************)
MaxSigns == 2
MaxSignFields == 2

Sep == "/"
Extensions == {".pdf", ".PDF", ".txt", ".json"}

\* the documents a sign request can name
DocPdf == <<Sep, "docs", Sep, "a", ".pdf">>
DocUpper == <<Sep, "docs", Sep, "a", ".PDF">>
DocNotes == <<Sep, "docs", Sep, "notes", ".txt">>
SignPaths == {DocPdf, DocUpper, DocNotes}

\* where the save dialog can point
SavePaths == {<<Sep, "out", Sep, "a", ".pdf">>}

\* pages of every PDF on the disk
SignPages == 2

\* path.parse(filePath): dir, name and ext of the last segment; a leading
\* dot of the segment does not start an extension
Parse(p) ==
  LET k == CHOOSE i \in DOMAIN p :
             p[i] = Sep /\ \A j \in (i + 1)..Len(p) : p[j] # Sep
      base == SubSeq(p, k + 1, Len(p))
      hasExt == Len(base) > 1 /\ base[Len(base)] \in Extensions
  IN  [dir |-> SubSeq(p, 1, k - 1),
       name |-> IF hasExt THEN SubSeq(base, 1, Len(base) - 1) ELSE base,
       ext |-> IF hasExt THEN <<base[Len(base)]>> ELSE <<>>]

\* join(parsedPath.dir, `${parsedPath.name}_signed${parsedPath.ext}`)
OutputPath_InPlace(filePath) ==
  LET parsedPath == Parse(filePath)
  IN  parsedPath.dir \o <<Sep>> \o parsedPath.name \o parsedPath.ext

OutputPath(filePath) ==
  LET parsedPath == Parse(filePath)
  IN  parsedPath.dir \o <<Sep>> \o parsedPath.name \o <<"_signed">>
        \o parsedPath.ext

\* String.prototype.replace with a string pattern: the first occurrence
ReplaceFirst(p, piece, with) ==
  IF \E i \in DOMAIN p : p[i] = piece
  THEN LET i == CHOOSE k \in DOMAIN p :
                  p[k] = piece /\ \A j \in 1..(k - 1) : p[j] # piece
       IN  SubSeq(p, 1, i - 1) \o with \o SubSeq(p, i + 1, Len(p))
  ELSE p

\* outputPath.replace('.pdf', '_signature_metadata.json')
MetadataPath(outputPath) ==
  ReplaceFirst(outputPath, ".pdf", <<"_signature_metadata", ".json">>)

\* fs.writeFile(path, content)
WriteFile(d, path, content) ==
  [q \in DOMAIN d \cup {path} |-> IF q = path THEN content ELSE d[q]]

\* the field records a sign request can carry
SignFields ==
  [signatureType : {"image", "draw", "type", "text", "stamp"},
   signatureData : {"", "data:image/png"},
   signatureText : {"", "typed"},
   pageNumber : {1, SignPages + 1}]

\* a request field with its id and the default geometry
RequestField(i, f) ==
  [id |-> i, pageNumber |-> f.pageNumber,
   x |-> R(30), y |-> R(10),
   width |-> R(SIGNATURE_FIELD_WIDTH), height |-> R(SIGNATURE_FIELD_HEIGHT),
   signatureType |-> f.signatureType, signatureData |-> f.signatureData,
   signatureText |-> f.signatureText]

Requests ==
  UNION {{[i \in 1..n |-> RequestField(i, fs[i])] : fs \in [1..n -> SignFields]}
           : n \in 1..MaxSignFields}

\* signDocument(filePath, signatureFields, outputPath) on disk d, as call n:
\* its result, what it drew, and the disk it leaves
SignDocument(filePath, fields, outputPath, embeds, d, n) ==
  LET ops == AddVisualSignature(fields, SignPages, embeds)
      metadataPath == MetadataPath(outputPath)
      failed == [result |-> [success |-> FALSE], ops |-> None, disk |-> d]
  IN  IF filePath \notin DOMAIN d           \* fs.readFile rejects
      THEN failed
      ELSE IF d[filePath].kind # "pdf"      \* PDFDocument.load rejects
      THEN failed
      ELSE IF \E i \in DOMAIN ops : ops[i].op = "throw"
      THEN failed
      ELSE [result |-> [success |-> TRUE, signedFilePath |-> outputPath,
                        metadataPath |-> metadataPath],
            ops |-> [kind |-> "ops", ops |-> ops],
            disk |-> WriteFile(WriteFile(d, outputPath,
                                         [kind |-> "pdf", call |-> n,
                                          fields |-> 0]),
                               metadataPath,
                               [kind |-> "json", call |-> n,
                                fields |-> Len(fields)])]

\* handleDownloadSignedDocument up to its second await: documents:sign
\* runs in the main process, and on success the renderer asks for the
\* download, which opens the save dialog
DocumentsSign(filePath, embeds) ==
  LET n == Len(signLog) + 1
      outputPath == OutputPath(filePath)
      signed == SignDocument(filePath, request, outputPath, embeds, disk, n)
  IN  /\ dialog = None
      /\ n <= MaxSigns
      /\ disk' = signed.disk
      /\ lastOps' = signed.ops
      /\ signLog' = Append(signLog, [input |-> filePath,
                                     output |-> outputPath,
                                     metadata |-> MetadataPath(outputPath),
                                     success |-> signed.result.success])
      /\ IF signed.result.success
         THEN /\ dialog' = [kind |-> "open", filePath |-> outputPath]
              /\ UNCHANGED toast
         ELSE /\ toast' = [type |-> "error", message |-> "Download failed: "]
              /\ UNCHANGED dialog
      /\ UNCHANGED <<request, download, verified>>
      /\ UNCHANGED <<rvars, evars>>

\* the user picks a path in the save dialog: documents:download copies the
\* file, and the renderer reports it
DownloadSave(savePath) ==
  /\ dialog # None
  /\ dialog' = None
  /\ IF dialog.filePath \in DOMAIN disk
     THEN /\ disk' = WriteFile(disk, savePath, disk[dialog.filePath])
          /\ download' = [kind |-> "result", canceled |-> FALSE,
                          success |-> TRUE, error |-> "", copied |-> TRUE]
          /\ toast' = [type |-> "success",
                       message |-> "Signed document downloaded successfully!"]
     ELSE /\ download' = [kind |-> "result", canceled |-> FALSE,
                          success |-> FALSE, error |-> "ENOENT",
                          copied |-> FALSE]
          /\ toast' = [type |-> "error", message |-> "ENOENT"]
          /\ UNCHANGED disk
  /\ UNCHANGED <<request, signLog, lastOps, verified>>
  /\ UNCHANGED <<rvars, evars>>

\* the user cancels the save dialog
DownloadCancel ==
  /\ dialog # None
  /\ dialog' = None
  /\ download' = [kind |-> "result", canceled |-> TRUE, success |-> FALSE,
                  error |-> "Download cancelled", copied |-> FALSE]
  /\ toast' = [type |-> "error", message |-> download'.error]
  /\ UNCHANGED <<request, disk, signLog, lastOps, verified>>
  /\ UNCHANGED <<rvars, evars>>

\* signedFilePath.replace('.pdf', '_signature_metadata.json')
VerifyMetadataPath_Appended(signedFilePath) ==
  signedFilePath \o <<"_signature_metadata", ".json">>

VerifyMetadataPath(signedFilePath) ==
  ReplaceFirst(signedFilePath, ".pdf", <<"_signature_metadata", ".json">>)

\* verifyDocument(signedFilePath) on disk d; every exception is caught
VerifyDocument(signedFilePath, d) ==
  LET metadataPath == VerifyMetadataPath(signedFilePath)
  IN  IF metadataPath \notin DOMAIN d        \* fs.access rejects
      THEN [isValid |-> FALSE, reason |-> "No signature metadata found",
            info |-> None]
      ELSE IF d[metadataPath].kind # "json"  \* JSON.parse throws
      THEN [isValid |-> FALSE, reason |-> "Verification failed: ",
            info |-> None]
      ELSE [isValid |-> d[metadataPath].fields > 0, reason |-> "",
            info |-> d[metadataPath]]

\* documents:verify
DocumentsVerify(signedFilePath) ==
  /\ verified' = [path |-> signedFilePath,
                  result |-> VerifyDocument(signedFilePath, disk)]
  /\ verified' # verified
  /\ UNCHANGED <<request, disk, signLog, lastOps, dialog, download, toast>>
  /\ UNCHANGED <<rvars, evars>>

\* no sign request was made
InitSignIdle ==
  /\ request = <<>>
  /\ disk = <<>>
  /\ signLog = <<>>
  /\ lastOps = None
  /\ dialog = None
  /\ download = None
  /\ toast = None
  /\ verified = None

\* the documents are on the disk and the renderer holds a field list
InitSign ==
  /\ request \in Requests
  /\ disk = [p \in SignPaths |->
               [kind |-> IF p = DocNotes THEN "text" ELSE "pdf", call |-> 0,
                fields |-> 0]]
  /\ signLog = <<>>
  /\ lastOps = None
  /\ dialog = None
  /\ download = None
  /\ toast = None
  /\ verified = None

\* the editor part at mount, after the existing-fields effect has put the
\* fields of the prop into the collection
InitEditorWith(fields) ==
  /\ signatureFields = fields
  /\ selectedFieldId = 0
  /\ isPlacingSignature = FALSE
  /\ isDragging = FALSE
  /\ isResizing = FALSE
  /\ showSignatureModal = FALSE
  /\ pendingSignaturePosition = None
  /\ gesture = None
  /\ listeners = <<>>
  /\ raf = None
  /\ overlay = <<>>
  /\ gestures = 0
  /\ last = None
  /\ snapshot = None
  /\ drawn = None
  /\ fieldIds = 0

\* the editor part, at mount with no existing fields
InitEditor == InitEditorWith(<<>>)

InitEditorIdle == InitEditor /\ devicePixelRatio = R(1)

\* the editor right after its document was decoded: the first render batch
\* is about to ask for page 1
InitShown ==
  /\ mounted = TRUE
  /\ file = "b.pdf"
  /\ loads = [l \in Loads |-> IF l = 1 THEN DoneLoad ELSE IdleLoad]
  /\ docState = [l \in Loads |-> IF l = 1 THEN "live" ELSE "none"]
  /\ pdfInstanceRef = 1
  /\ pdf = 1
  /\ pageCount = numPages("b.pdf")
  /\ scale = DEFAULT_SCALE
  /\ loading = FALSE
  /\ error = "none"
  /\ renderTokenRef = 1
  /\ effectActive = TRUE
  /\ batches = {[token |-> 1, doc |-> 1, scale |-> DEFAULT_SCALE,
                 pages |-> numPages("b.pdf"), index |-> 1, pc |-> "getPage",
                 cgen |-> 1]}
  /\ lastStarted = 1
  /\ canvasMounted = TRUE
  /\ canvasGen = 1
  /\ surface = BlankSurfaces
  /\ zooms = 0
  /\ staleEffects = {}
  /\ tornRender = FALSE
  /\ silenced = FALSE
  /\ devicePixelRatio \in {R(1), <<3, 2>>}

InitPlacement == InitShown /\ InitEditor /\ InitSignIdle

\* existingSignatureFields of a document signed before: one field, placed
\* in an earlier session with a click at (100, 100) on page 1
ExistingFields ==
  LET p == PlaceAt(1, R(100), R(100), DEFAULT_SCALE, R(1), DEFAULT_SCALE)
  IN  <<[id |-> 100,
         pageNumber |-> p.pageNumber,
         x |-> p.x, y |-> p.y,
         width |-> p.width, height |-> p.height,
         clientX |-> p.clientX, clientY |-> p.clientY,
         signatureType |-> "draw",
         signatureData |-> "data:image/png",
         signatureText |-> "",
         atScale |-> p.atScale, atSized |-> p.atSized,
         edited |-> FALSE]>>

\* the editor opened on a signed document (isEditing)
InitEditing == InitShown /\ InitEditorWith(ExistingFields) /\ InitSignIdle

\* The editor with its document on screen: the file prop stays, pdf.js
\* serves every page, and the editor is opened without existing fields
\* (isEditing false), so a field is placed from Sign Document.
NextPlacement ==
  \/ EnterPlacement /\ UNCHANGED svars
  \/ \E pt \in ClickPoints : CanvasClick(1, pt) /\ UNCHANGED svars
  \/ \E signature \in Signatures : SignatureCreated(signature) /\ UNCHANGED svars
  \/ CloseSignatureModal /\ UNCHANGED svars
  \/ \E i \in DOMAIN overlay : FieldDelete(i) /\ UNCHANGED svars
  \/ \E i \in DOMAIN overlay : FieldMouseDown(i) /\ UNCHANGED svars
  \/ \E i \in DOMAIN overlay, handle \in Handles : ResizeMouseDown(i, handle) /\ UNCHANGED svars
  \/ \E d \in Moves : MouseMove(d) /\ UNCHANGED svars
  \/ AnimationFrame /\ UNCHANGED svars
  \/ MouseUp /\ UNCHANGED svars
  \/ Rerender /\ UNCHANGED svars
  \/ FinishSigning /\ UNCHANGED svars
  \/ SignResolve /\ UNCHANGED svars
  \/ EditorZoomIn /\ UNCHANGED svars
  \/ EditorZoomOut /\ UNCHANGED svars
  \/ \E b \in batches : GetPageResolve(b) /\ UNCHANGED <<evars, svars>>
  \/ \E b \in batches : RenderResolve(b) /\ UNCHANGED <<evars, svars>>

SpecPlacement == InitPlacement /\ [][NextPlacement]_vars

\* The editor under every pointer and keyboard input, at one zoom scale:
\* a mouse button can go down while a gesture is in progress, and the
\* Close button can be activated at any time.
NextGesture ==
  \/ EnterPlacement /\ UNCHANGED svars
  \/ \E pt \in ClickPoints : CanvasClick(1, pt) /\ UNCHANGED svars
  \/ \E signature \in Signatures : SignatureCreated(signature) /\ UNCHANGED svars
  \/ CloseSignatureModal /\ UNCHANGED svars
  \/ \E i \in DOMAIN overlay : FieldDelete(i) /\ UNCHANGED svars
  \/ \E i \in DOMAIN overlay : FieldMouseDown(i) /\ UNCHANGED svars
  \/ \E i \in DOMAIN overlay, handle \in Handles :
       ResizeMouseDown(i, handle) /\ UNCHANGED svars
  \/ \E i \in DOMAIN overlay : FieldMouseDownAgain(i) /\ UNCHANGED svars
  \/ \E i \in DOMAIN overlay : ResizeMouseDownAgain(i) /\ UNCHANGED svars
  \/ \E d \in Moves : MouseMove(d) /\ Len(listeners) = 1 /\ UNCHANGED svars
  \/ AnimationFrame /\ UNCHANGED svars
  \/ MouseUp /\ UNCHANGED svars
  \/ CloseEditor /\ UNCHANGED svars
  \/ \E b \in batches : GetPageResolve(b) /\ UNCHANGED <<evars, svars>>
  \/ \E b \in batches : RenderResolve(b) /\ UNCHANGED <<evars, svars>>

SpecGesture == InitPlacement /\ [][NextGesture]_vars

\* The editor when the page surfaces may be measured without a layout box:
\* placement, creation and deletion of a field, and renders.
NextMeasure ==
  \/ EnterPlacement /\ UNCHANGED svars
  \/ \E pt \in ClickPoints : CanvasClick(1, pt) /\ UNCHANGED svars
  \/ \E pt \in DispatchPoints : CanvasClickOn(1, pt, EmptyRect) /\ UNCHANGED svars
  \/ \E signature \in Signatures : SignatureCreated(signature) /\ UNCHANGED svars
  \/ CloseSignatureModal /\ UNCHANGED svars
  \/ \E i \in DOMAIN overlay : FieldDelete(i) /\ UNCHANGED svars
  \/ Rerender /\ UNCHANGED svars
  \/ RerenderOn(EmptyRect) /\ UNCHANGED svars
  \/ \E b \in batches : GetPageResolve(b) /\ UNCHANGED <<evars, svars>>
  \/ \E b \in batches : RenderResolve(b) /\ UNCHANGED <<evars, svars>>

SpecMeasure == InitPlacement /\ [][NextMeasure]_vars

\* The editor with its document on screen and the Download button: a field
\* is placed, then the signed document is downloaded from the editor.
NextDownload ==
  \/ EnterPlacement /\ UNCHANGED svars
  \/ \E pt \in ClickPoints : CanvasClick(1, pt) /\ UNCHANGED svars
  \/ \E signature \in Signatures : SignatureCreated(signature) /\ UNCHANGED svars
  \/ CloseSignatureModal /\ UNCHANGED svars
  \/ \E i \in DOMAIN overlay : FieldDelete(i) /\ UNCHANGED svars
  \/ Rerender /\ UNCHANGED svars
  \/ DownloadClick /\ UNCHANGED svars
  \/ DownloadSettled /\ UNCHANGED svars
  \/ \E b \in batches : GetPageResolve(b) /\ UNCHANGED <<evars, svars>>
  \/ \E b \in batches : RenderResolve(b) /\ UNCHANGED <<evars, svars>>

SpecDownload == InitPlacement /\ [][NextDownload]_vars

\* The editor in editing mode: the document comes with a field, fields are
\* selected, added and deleted, and the editor can be closed.
NextEditing ==
  \/ AddSignature /\ UNCHANGED svars
  \/ EnterPlacement /\ UNCHANGED svars
  \/ \E pt \in ClickPoints : CanvasClick(1, pt) /\ UNCHANGED svars
  \/ \E signature \in Signatures : SignatureCreated(signature) /\ UNCHANGED svars
  \/ CloseSignatureModal /\ UNCHANGED svars
  \/ \E i \in DOMAIN overlay : FieldDelete(i) /\ UNCHANGED svars
  \/ \E i \in DOMAIN overlay : FieldMouseDown(i) /\ UNCHANGED svars
  \/ MouseUp /\ UNCHANGED svars
  \/ Rerender /\ UNCHANGED svars
  \/ CloseEditor /\ UNCHANGED svars
  \/ \E b \in batches : GetPageResolve(b) /\ UNCHANGED <<evars, svars>>
  \/ \E b \in batches : RenderResolve(b) /\ UNCHANGED <<evars, svars>>

SpecEditing == InitEditing /\ [][NextEditing]_vars

Init == InitRender /\ InitEditorIdle /\ InitSignIdle

\* the page renderer on its own: no field is placed
Next ==
  \/ \E l \in Loads : ReadResolve(l) /\ UNCHANGED <<evars, svars>>
  \/ \E l \in Loads : DecodeResolve(l) /\ UNCHANGED <<evars, svars>>
  \/ \E l \in Loads : LoadReject(l) /\ UNCHANGED <<evars, svars>>
  \/ \E b \in batches : GetPageResolve(b) /\ UNCHANGED <<evars, svars>>
  \/ \E b \in batches : RenderResolve(b) /\ UNCHANGED <<evars, svars>>
  \/ \E b \in batches : RenderReject(b) /\ UNCHANGED <<evars, svars>>
  \/ \E f \in AllFiles : FileChange(f) /\ UNCHANGED <<evars, svars>>
  \/ ZoomIn /\ UNCHANGED <<evars, svars>>
  \/ ZoomOut /\ UNCHANGED <<evars, svars>>
  \/ Unmount /\ UNCHANGED <<evars, svars>>

Spec == Init /\ [][Next]_vars

\* the signing backend on its own: the page renderer and the field
\* editor take no step and stay as they are at mount
NextSign ==
  \/ \E filePath \in SignPaths, embeds \in [DOMAIN request -> BOOLEAN] :
       DocumentsSign(filePath, embeds)
  \/ \E savePath \in SavePaths : DownloadSave(savePath)
  \/ DownloadCancel

InitSigning == InitRender /\ file = NoFile /\ InitEditorIdle /\ InitSign

SpecSign == InitSigning /\ [][NextSign]_vars

\* the paths documents:verify is asked about: what sign read and wrote,
\* where a download went, and a file that was never there
VerifyPaths ==
  SignPaths \cup SavePaths \cup {<<Sep, "docs", Sep, "b", ".pdf">>}
    \cup {OutputPath(p) : p \in SignPaths}
    \cup {MetadataPath(OutputPath(p)) : p \in SignPaths}

\* signing and verifying, for the requests of one field
InitVerifying == InitSigning /\ Len(request) = 1

NextVerify ==
  \/ \E filePath \in SignPaths, embeds \in [DOMAIN request -> BOOLEAN] :
       DocumentsSign(filePath, embeds)
  \/ \E savePath \in SavePaths : DownloadSave(savePath)
  \/ DownloadCancel
  \/ \E signedFilePath \in VerifyPaths : DocumentsVerify(signedFilePath)

SpecVerify == InitVerifying /\ [][NextVerify]_vars

(***************************************************************************)
(* Claims about the page renderer, checked under Spec.                     *)
(***************************************************************************)
LiveDocs == {l \in Loads : docState[l] = "live"}

\* C1 (token cancellation): once a render batch B has been started, no
\* completion of an earlier batch A sizes, clears or draws on a page surface
\* on screen, and none sets the error state.
C1_TokenCancellation == staleEffects = {}

\* C9 (teardown cancels rendering): once a document has been torn down (a
\* different file was loaded, or the component was unmounted), every page
\* loop still in flight for it holds a token that is no longer the render
\* token, and no page of a torn-down document is rendered.
C9_TeardownCancels ==
  /\ \A b \in batches : b.token = renderTokenRef => docState[b.doc] # "destroyed"
  /\ ~tornRender

\* C10 (decoded-document release): at most one decoded document is live, the
\* live one is the handle installed by the load of the current file, a
\* document decoded by a superseded load is never left live, and none is
\* live after unmount.
C10_DocumentRelease ==
  /\ Cardinality(LiveDocs) <= 1
  /\ \A l \in LiveDocs :
       /\ mounted
       /\ pdfInstanceRef = l
       /\ l = nLoads
       /\ isPdf(file)
  /\ pdfInstanceRef # 0 => pdfInstanceRef \in LiveDocs

\* C10's case: a superseded load decoded its document and destroyed it, and
\* the document of the load that replaced it is live
C10_Witness ==
  \E l, m \in Loads : docState[l] = "discarded" /\ docState[m] = "live"

(***************************************************************************)
(* Properties of placement, gestures and burn-in.                          *)
(***************************************************************************)
Within(a, b, tol) == RLe(RAbs(RSub(a, b)), tol)

\* the <div> styles of the last render, each with its field
Shown ==
  {pr \in {<<overlay[i], signatureFields[j]>> :
             i \in DOMAIN overlay, j \in DOMAIN signatureFields} :
     pr[1].id = pr[2].id}

\* the draw operations of the signed output, each with its field
Burned ==
  IF drawn = None THEN {}
  ELSE {<<drawn.ops[i], snapshot.fields[i]>> : i \in DOMAIN drawn.ops}

\* the field the last applied pointer-move update wrote
Updated(kind) ==
  IF last = None \/ last.kind # kind THEN {}
  ELSE {signatureFields[j] : j \in {k \in DOMAIN signatureFields :
                                      signatureFields[k].id = last.id}}

\* a field as the click left it, placed on a surface rendered at the zoom
\* scale of the click
PlacedAtScale(f) == ~f.edited /\ f.atSized # Unsized /\ f.atSized = f.atScale

\* C2 (as stated): a field placed by a click at pointer (px, py) while zoom
\* scale s is active, and then signed, is drawn in the output PDF centred at
\* px / s from the left and py / s from the top of the page, with size
\* 150 / s by 60 / s points (2 points of tolerance for pixel rounding).
C2_PlacementBurnInScale ==
  \A pr \in Burned :
    LET op == pr[1]
        f == pr[2]
        s == f.atScale
        top == RSub(R(PageSize.height), RAdd(op.y, op.height))
    IN  op.op = "image" /\ PlacedAtScale(f) =>
          /\ Within(RAdd(op.x, RDiv(op.width, R(2))), RDiv(f.clientX, s), R(2))
          /\ Within(RAdd(top, RDiv(op.height, R(2))), RDiv(f.clientY, s), R(2))
          /\ Within(op.width, RDiv(R(SIGNATURE_FIELD_WIDTH), s), R(2))
          /\ Within(op.height, RDiv(R(SIGNATURE_FIELD_HEIGHT), s), R(2))

\* C3 (as stated): a field placed by a click at pointer (px, py) at zoom
\* scale s1 and then rendered at zoom scale s2 appears centred at
\* (px * s2 / s1, py * s2 / s1), within one pixel.
C3_AnchoringRoundTrip ==
  \A pr \in Shown :
    LET st == pr[1]
        f == pr[2]
        ratio == RDiv(st.onSized, f.atScale)
    IN  PlacedAtScale(f) /\ st.onSized # Unsized =>
          /\ Within(RAdd(st.left, RDiv(st.width, R(2))),
                    RMul(f.clientX, ratio), R(1))
          /\ Within(RAdd(st.top, RDiv(st.height, R(2))),
                    RMul(f.clientY, ratio), R(1))

\* C4: on an unchanged surface (same scale, same device pixel ratio), a
\* freshly placed field is rendered centred on the click point: the render
\* transform undoes the placement transform.
C4_InverseConsistency ==
  \A pr \in Shown :
    LET st == pr[1]
        f == pr[2]
    IN  ~f.edited /\ st.onSized = f.atSized =>
          /\ RAdd(st.left, RDiv(st.width, R(2))) = f.clientX
          /\ RAdd(st.top, RDiv(st.height, R(2))) = f.clientY

C4_Witness ==
  \E pr \in Shown :
    /\ ~pr[2].edited /\ pr[1].onSized = pr[2].atSized
    /\ pr[1].onSized # Unsized
    /\ devicePixelRatio # R(1)
    /\ pr[1].left # pr[2].x

\* C5: every stored field is at least 50 wide and 30 high, and a resize
\* whose pointer would make it smaller stores exactly 50, exactly 30.
C5_ResizeFloor ==
  /\ \A j \in DOMAIN signatureFields :
       /\ RLe(R(50), signatureFields[j].width)
       /\ RLe(R(30), signatureFields[j].height)
  /\ \A f \in Updated("resize") :
       /\ RLt(last.to.rawA, R(50)) => f.width = R(50)
       /\ RLt(last.to.rawB, R(30)) => f.height = R(30)

C5_Witness ==
  \E f \in Updated("resize") :
    /\ RLt(last.to.rawA, R(50)) /\ f.width = R(50)
    /\ RLt(last.to.rawB, R(30)) /\ f.height = R(30)

\* C6: the origin a drag writes is never negative: a pointer that would put
\* the field left of or above the page surface stores 0.
C6_DragClamp ==
  \A f \in Updated("drag") :
    /\ RLe(R(0), f.x) /\ RLe(R(0), f.y)
    /\ RLt(last.to.rawA, R(0)) => f.x = R(0)
    /\ RLt(last.to.rawB, R(0)) => f.y = R(0)

C6_Witness ==
  \E f \in Updated("drag") :
    /\ RLt(last.clientX, R(0)) /\ RLt(last.clientY, R(0))
    /\ RLt(last.to.rawA, R(0)) /\ f.x = R(0) /\ f.y = R(0)

\* C7: a signature embedded as an image (drawn or uploaded kind) is drawn
\* with its top edge y_pdf below the top of the page, at
\* (x_pdf, pageHeight - y_pdf - height_pdf) with size (width_pdf,
\* height_pdf), where the _pdf values are the stored ones divided by 0.75; a
\* field stored at y = 0 is drawn at y = pageHeight - height_pdf. A typed
\* signature, and the text that replaces an image that cannot be embedded,
\* is drawn as glyphs 5 points right of x_pdf on a baseline inside that
\* rectangle.
C7_BurnInFlip ==
  \A pr \in Burned :
    LET op == pr[1]
        f == pr[2]
        pdfX == RDiv(f.x, DEFAULT_SCALE)
        pdfY == RDiv(f.y, DEFAULT_SCALE)
        pdfWidth == RDiv(f.width, DEFAULT_SCALE)
        pdfHeight == RDiv(f.height, DEFAULT_SCALE)
        bottom == RSub(R(PageSize.height), RAdd(pdfY, pdfHeight))
    IN  /\ op.op \in {"image", "text"}
        /\ op.op = "image" =>
             /\ f.signatureType \in ImageKinds
             /\ op.x = pdfX /\ op.width = pdfWidth /\ op.height = pdfHeight
             /\ RAdd(op.y, op.height) = RSub(R(PageSize.height), pdfY)
             /\ f.y = R(0) => op.y = RSub(R(PageSize.height), op.height)
        /\ op.op = "text" =>
             /\ op.x = RAdd(pdfX, R(5))
             /\ RLe(bottom, op.y) /\ RLe(op.y, RAdd(bottom, pdfHeight))
        /\ f.signatureType = "type" => op.op = "text"

C7_Witness ==
  \E pr \in Burned :
    /\ pr[1].op = "image" /\ pr[2].y = R(0)
    /\ pr[1].y = RSub(R(PageSize.height), pr[1].height)

\* C7 (as stated): every signature kind is drawn as the rectangle at
\* (x_pdf, pageHeight - y_pdf - height_pdf) with size (width_pdf, height_pdf).
C7_EveryKindFlipped ==
  \A pr \in Burned :
    LET op == pr[1]
        f == pr[2]
        pdfY == RDiv(f.y, DEFAULT_SCALE)
        pdfHeight == RDiv(f.height, DEFAULT_SCALE)
    IN  /\ op.x = RDiv(f.x, DEFAULT_SCALE)
        /\ op.y = RSub(RSub(R(PageSize.height), pdfY), pdfHeight)
        /\ op.op = "image"
        /\ op.width = RDiv(f.width, DEFAULT_SCALE)
        /\ op.height = pdfHeight

\* C8 (as stated): a drag of the bottom-right handle by (dx, dy) screen
\* pixels at zoom scale s that stays above the floor increases the stored
\* width by dx / s and the stored height by dy / s.
C8_DividesByZoom ==
  \A f \in Updated("resize") :
    /\ last.handle = "bottom-right"
    /\ RLe(R(50), last.to.rawA) /\ RLe(R(30), last.to.rawB)
    => /\ f.width = RAdd(last.startWidth, RDiv(R(last.dx), last.atScale))
       /\ f.height = RAdd(last.startHeight, RDiv(R(last.dy), last.atScale))

\* C16: decode failure.  When readDocument or the decode of the current
\* (not cancelled) load rejects, an error is set, loading becomes false,
\* the page canvases are not on screen, and the failed document has
\* neither a handle nor a render batch.
C16_DecodeFailure ==
  [][\A l \in Loads :
       (LoadReject(l) /\ ~loads[l].cancelled) =>
         /\ error' = "open"
         /\ ~loading'
         /\ ~canvasMounted'
         /\ surface' = BlankSurfaces
         /\ docState'[l] = "none"
         /\ pdfInstanceRef' # l /\ pdf' # l
         /\ \A b \in batches' : b.doc # l]_vars

\* the second file failed to load after the first one had been decoded
C16_Witness ==
  /\ error = "open"
  /\ ~loading
  /\ pdf = 1
  /\ loads[2] = DoneLoad
  /\ docState[2] = "none"
  /\ ~canvasMounted

\* C17: render failure.  When getPage or the rasterizing of page k
\* rejects in the batch that holds the current token, the batch ends
\* there (no continuation of it is left to render pages k+1..N or to set
\* another error) and the one error 'Unable to render pages' is set.
C17_RenderFailure ==
  [][\A b \in batches :
       (RenderReject(b) /\ mounted /\ b.token = renderTokenRef) =>
         /\ error' = "render"
         /\ \A c \in batches' : c.token # b.token
         /\ \A k \in Pages : k > b.index => surface'[k].paintTok # b.token
         /\ ~canvasMounted']_vars

\* a batch of the two-page document failed and left the error
C17_Witness ==
  /\ error = "render"
  /\ pageCount = 2
  /\ ~canvasMounted
  /\ \A b \in batches : b.token # renderTokenRef

\* C20: fields are created only in placement mode.  A field is added only
\* from a pending position, which it consumes; a pending position is set
\* only by a canvas click made in placement mode, which ends the mode; a
\* canvas click outside placement mode changes neither the fields nor the
\* pending position; and the mode and a pending position never coexist,
\* so that one entry into placement mode yields at most one field.
C20_PlacementOnly ==
  [][/\ Len(signatureFields') > Len(signatureFields) =>
          /\ signatureFields' # <<>>
          /\ SubSeq(signatureFields', 1, Len(signatureFields') - 1)
               = signatureFields
          /\ pendingSignaturePosition # None
          /\ pendingSignaturePosition' = None
          /\ signatureFields'[Len(signatureFields')].x
               = pendingSignaturePosition.x
          /\ signatureFields'[Len(signatureFields')].y
               = pendingSignaturePosition.y
          /\ ~isPlacingSignature'
     /\ (/\ pendingSignaturePosition' # None
         /\ pendingSignaturePosition' # pendingSignaturePosition) =>
          /\ isPlacingSignature
          /\ ~isPlacingSignature'
     /\ \A pt \in ClickPoints :
          (CanvasClick(1, pt) /\ ~isPlacingSignature) =>
            UNCHANGED <<signatureFields, pendingSignaturePosition>>
     /\ ~(isPlacingSignature' /\ pendingSignaturePosition' # None)]_vars

\* a field was placed, and placement mode and the pending position are
\* used up
C20_Witness ==
  /\ Len(signatureFields) = 1
  /\ fieldIds = 1
  /\ ~isPlacingSignature
  /\ pendingSignaturePosition = None
  /\ ~showSignatureModal
  /\ selectedFieldId = 0

(***************************************************************************)
(* Claims about gestures, checked under SpecGesture.                       *)
(***************************************************************************)
\* C18: single active gesture.  The dragging and the resizing flag are
\* never both true, and at most one mousemove/mouseup listener pair is
\* registered.
C18_SingleGesture ==
  /\ ~(isDragging /\ isResizing)
  /\ Len(listeners) <= 1

\* C19: listener cleanup is unconditional.  Once the editor is torn down
\* no gesture listener is registered; and whenever none is registered,
\* both flags are false.
C19_ListenersScoped ==
  /\ ~mounted => listeners = <<>>
  /\ listeners = <<>> => ~isDragging /\ ~isResizing

(***************************************************************************)
(* Claims about the signing backend, checked under SpecSign.               *)
(***************************************************************************)
\* the fields of the request that lie on a page of the document
OnPage(field) == field.pageNumber \in 1..SignPages

\* the last documents:sign call read a PDF
LastSignReadPdf ==
  /\ signLog # <<>>
  /\ disk[signLog[Len(signLog)].input].kind = "pdf"

\* C11: per-field fallback at burn-in.  Whenever a document was burned,
\* every field on an existing page has exactly one drawn element: an
\* image, a text, or the plain-text placeholder, whatever its kind and
\* whether or not it carries image data.
C11_OneElementPerField ==
  lastOps # None =>
    \A i \in DOMAIN request :
      OnPage(request[i]) => lastOps.ops[i].op \in {"image", "text"}

\* C12: nonexistent pages are skipped.  A sign call that read a PDF
\* succeeds whatever the page numbers of its fields; a field whose
\* pageNumber is not in 1..pageCount draws nothing, and every other field
\* is handled as it is on its own.
C12_MissingPagesSkipped ==
  LastSignReadPdf =>
    /\ signLog[Len(signLog)].success
    /\ lastOps # None
    /\ \A i \in DOMAIN request :
         IF OnPage(request[i])
         THEN lastOps.ops[i] \in
                {DrawField(request[i], SignPages, e) : e \in BOOLEAN}
              /\ lastOps.ops[i].op # "skip"
         ELSE lastOps.ops[i].op = "skip"

\* a burned list whose first field is off the document and whose second
\* field was drawn
C12_Witness ==
  /\ LastSignReadPdf
  /\ lastOps # None
  /\ Len(request) = 2
  /\ ~OnPage(request[1])
  /\ OnPage(request[2])
  /\ lastOps.ops[1].op = "skip"
  /\ lastOps.ops[2].op \in {"image", "text"}

\* C13: sign does not mutate the original.  Every documents:sign call
\* names an output path and a metadata path that differ from its input
\* path, and every path whose content the call creates or changes differs
\* from the input path: the input file is after the call what it was
\* before.
C13_OriginalUntouched ==
  [][Len(signLog') > Len(signLog) =>
       LET call == signLog'[Len(signLog')]
       IN  /\ call.output # call.input
           /\ call.metadata # call.input
           /\ \A p \in DOMAIN disk' :
                (p \notin DOMAIN disk \/ disk'[p] # disk[p]) => p # call.input
           /\ call.input \in DOMAIN disk =>
                /\ call.input \in DOMAIN disk'
                /\ disk'[call.input] = disk[call.input]]_vars

\* the same document was signed twice, both outputs were written, and the
\* document is the file it was at the start
C13_Witness ==
  /\ Len(signLog) = 2
  /\ signLog[1].input = signLog[2].input
  /\ signLog[1].success /\ signLog[2].success
  /\ disk[signLog[2].output].call = 2
  /\ disk[signLog[2].input] = [kind |-> "pdf", call |-> 0, fields |-> 0]

\* C14: sign produces a new output path each time.  Two successful
\* documents:sign calls on the same input file return different signed
\* output paths.
C14_FreshOutputPath ==
  \A i, j \in DOMAIN signLog :
    (/\ i < j
     /\ signLog[i].success /\ signLog[j].success
     /\ signLog[i].input = signLog[j].input)
      => signLog[i].output # signLog[j].output

\* C15: download cancellation is not an error.  When the user cancels the
\* save dialog, the download result carries no error, the renderer shows
\* no error message, and no file is copied.
C15_CancelIsNotAnError ==
  (download # None /\ download.canceled) =>
    /\ download.error = ""
    /\ toast = None \/ toast.type # "error"
    /\ ~download.copied

(***************************************************************************)
(* Further claims about the editor, checked under SpecPlacement.           *)
(***************************************************************************)
\* the stored rectangle of a field
RectangleOf(f) == <<f.x, f.y, f.width, f.height>>

\* C21: fields are mutated only during their own gesture.  Whenever the
\* stored rectangle of a field changes, a drag or resize gesture on that
\* field is in progress (its listener pair is registered) and the field is
\* the selected one.
C21_MutatedOnlyInGesture ==
  [][\A j \in DOMAIN signatureFields \cap DOMAIN signatureFields' :
       (/\ signatureFields'[j].id = signatureFields[j].id
        /\ RectangleOf(signatureFields'[j]) # RectangleOf(signatureFields[j]))
         => /\ gesture # None
            /\ gesture.id = signatureFields[j].id
            /\ selectedFieldId = signatureFields[j].id]_vars

(***************************************************************************)
(* Claims about verification, checked under SpecVerify.                    *)
(***************************************************************************)
\* the successful sign calls that returned this path
SignedAs(path) ==
  {n \in DOMAIN signLog : signLog[n].success /\ signLog[n].output = path}

\* C22: sign/verify round trip.  Verify of a path a successful sign
\* returned reports isValid with the metadata record of the last such
\* sign; verify of a path whose metadata file does not exist reports
\* isValid false with a reason; every verify ends with a result.
C22_SignVerifyRoundTrip ==
  [][verified' # verified =>
       LET path == verified'.path
           result == verified'.result
       IN  /\ SignedAs(path) # {} =>
                /\ result.isValid = TRUE
                /\ result.info.kind = "json"
                /\ result.info.fields = Len(request)
                /\ result.info.call \in SignedAs(path)
                /\ \A n \in SignedAs(path) : n <= result.info.call
           /\ VerifyMetadataPath(path) \notin DOMAIN disk =>
                /\ result.isValid = FALSE
                /\ result.reason # ""
           /\ result.isValid \in BOOLEAN]_vars

\* the signed path of a document signed twice was verified
C22_Witness ==
  /\ verified # None
  /\ Len(signLog) = 2
  /\ SignedAs(verified.path) = {1, 2}
  /\ verified.result.isValid
  /\ verified.result.info.call = 2

(***************************************************************************)
(* Further claims about the page renderer, checked under Spec.             *)
(***************************************************************************)
\* the tokens of the batches in flight
TokensInFlight == {b.token : b \in batches}

\* C23: render token monotonicity.  renderTokenRef never decreases; a
\* batch that starts takes a token greater than every value the counter
\* held before and than the token of every earlier batch; at most one
\* batch in flight holds the current token.
C23_TokenMonotonic ==
  [][/\ renderTokenRef' >= renderTokenRef
     /\ lastStarted' >= lastStarted
     /\ lastStarted' # lastStarted =>
          /\ lastStarted' > renderTokenRef
          /\ lastStarted' = renderTokenRef'
          /\ \A t \in TokensInFlight : t < lastStarted'
     /\ \A nb \in batches' :
          nb.token \notin TokensInFlight =>
            /\ nb.token > renderTokenRef
            /\ nb.token > lastStarted
            /\ nb.token = lastStarted'
     /\ \A b, c \in batches' :
          (b.token = renderTokenRef' /\ c.token = renderTokenRef') => b = c]_vars

\* a batch with the current token runs while a batch with an earlier
\* token is still in flight
C23_Witness ==
  \E b, c \in batches :
    /\ b.token = renderTokenRef
    /\ c.token < b.token
    /\ renderTokenRef >= 3


\* C24: a page fetch or render that fails in a batch whose token is no longer
\* the current one leaves the error state as it was.
C24_StaleFailuresSilent ==
  [][\A b \in batches :
        (RenderReject(b) /\ b.token # renderTokenRef) => error' = error]_vars

\* a failure of a superseded batch was caught while the editor showed no error
C24_Witness == silenced /\ mounted /\ error = "none"

\* C25: a placement click or a field projection on a page surface whose
\* measured bounding box is empty is skipped: the click leaves the pending
\* position and the modal as they were, the render produces no screen
\* rectangle, and no coordinate held afterwards is non-finite.
C25_EmptySurfaceSkipped ==
  [][/\ \A pt \in DispatchPoints :
          ((CanvasClickOn(1, pt, EmptyRect) /\ isPlacingSignature) =>
             (/\ pendingSignaturePosition' = pendingSignaturePosition
              /\ showSignatureModal' = showSignatureModal))
     /\ (RerenderOn(EmptyRect) => overlay' = <<>>)
     /\ (pendingSignaturePosition' # None =>
           (/\ Finite(pendingSignaturePosition'.x)
            /\ Finite(pendingSignaturePosition'.y)))
     /\ \A i \in DOMAIN signatureFields' :
          Finite(signatureFields'[i].x) /\ Finite(signatureFields'[i].y)]_vars

\* C26: after the file prop was switched (the cleanup of the load effect
\* released the previous document), a render batch of the previous document
\* applies nothing: its failure leaves the error state as it was,
\* so the new document's pages are shown without an error of the old one.
C26_SwitchIsClean ==
  [][\A b \in batches :
        (RenderReject(b) /\ docState[b.doc] = "destroyed") =>
          error' = error]_vars

\* C27: whenever the editor displays page surfaces and no render batch with
\* the current token is in flight to draw them, every surface has been
\* drawn at the current scale; this includes the surfaces displayed after
\* a download from the editor set loading to true and back to false.
C27_VisibleSurfacesDrawn ==
  (mounted /\ canvasMounted /\ \A b \in batches : b.token # renderTokenRef) =>
    \A page \in 1..pageCount :
      surface[page].sized = scale /\ surface[page].paintTok # 0

\* String.prototype.toLowerCase on an extension
ToLowerCase(e) == IF e = ".PDF" THEN ".pdf" ELSE e

\* the editor's isPdf for the file at a path: its extension, lower-cased,
\* is that of a PDF
AcceptedAsPdf(path) ==
  LET ext == Parse(path).ext
  IN  ext # <<>> /\ ToLowerCase(ext[1]) = ".pdf"

\* C28: for every input path the editor accepts as a PDF, the metadata file
\* written by a sign call has another path than the signed PDF it wrote.
C28_SidecarDistinct ==
  \A k \in DOMAIN signLog :
    AcceptedAsPdf(signLog[k].input) =>
      signLog[k].metadata # signLog[k].output

\* C29: every field of the collection has a non-negative origin, also one
\* placed by a click near the left or the top edge of its page.
C29_OriginNonNegative ==
  \A i \in DOMAIN signatureFields :
    /\ RLe(R(0), signatureFields[i].x)
    /\ RLe(R(0), signatureFields[i].y)

=============================================================================
